---- MODULE Spec2Model ----
(***************************************************************************)
(* Model of src/script.js: the stacked timeline visualizer.                *)
(*                                                                         *)
(*   - the "complete" callback of Papa.parse inside handleCsvText: parser  *)
(*     errors, header check, row validation, processDataAndDrawChart;      *)
(*   - processDataAndDrawChart: cleaning, key set, d3.timeDay.range,       *)
(*     per-day occupancy, d3.stack, maximum stack height;                  *)
(*   - the asynchronous shell: debounce, handleCsvText's setTimeout(0),    *)
(*     ensurePapaLoaded and the dynamically injected script element.       *)
(*                                                                         *)
(* Dates are whole calendar days: day d stands for the text DateText(d)    *)
(* and for the instant new Date(DateText(d)); local midnights coincide     *)
(* with those instants.  Papa.parse, d3.timeDay.range, d3.stack and d3.max *)
(* are library code and are modelled by their documented behaviour.        *)
(***************************************************************************)
EXTENDS Integers, Sequences, FiniteSets, TLC

VARIABLES
    results,   \* Spec: the Papa.parse results handed to the complete callback
    phase,     \* Spec: "parsed" before the complete callback ran, "done" after
    page,      \* the page: #parse-errors, #rendering-indicator, the chart, alerts
    now,       \* AppSpec: the clock, in milliseconds
    timeout,   \* AppSpec: debounce's pending timer (<<>> when none)
    timers,    \* AppSpec: handleCsvText's pending setTimeout(0) callbacks, in order
    script,    \* AppSpec: the script[data-papa-dynamic] element
    papa,      \* AppSpec: whether window.Papa is defined
    listeners, \* AppSpec: invocations whose promise waits on the script's events
    d3,        \* whether the d3 global is defined
    hist       \* AppSpec: history of calls and invocations (not program state)

vars == <<results, phase, page, now, timeout, timers, script, papa, listeners, d3, hist>>

----------------------------------------------------------------------------
(* Bounds of the model. *)

\* Valid inputs: at most MaxIntervals rows over the days 1..MaxDay.
MaxIntervals == 3
MaxDay == 3
\* Raw inputs (rows that may break validation rules): at most MaxRows rows,
\* dates over 1..MaxRawDay.
MaxRows == 2
MaxRawDay == 2
\* Repeated inputs: up to MaxRepeat copies of one raw row.
MaxRepeat == 70

\* AppSpec: the clock runs to MaxClock in steps of at most TickMs; the user types
\* at most MaxCalls times.
MaxClock == 900
TickMs == 100
MaxCalls == 3

\* debounce(handleCsvText, 300)
DebounceDelay == 300

\* The cap of the displayed row errors: rowErrors.slice(0, 200).
ErrorCap == 200

----------------------------------------------------------------------------
(* JavaScript values. *)

\* The value of a property that is not there.
Undefined == "<undefined>"

\* String(v)
JsString(v) == IF v = Undefined THEN "undefined" ELSE v

\* String.prototype.trim over the texts of the model.
Trim(s) == CASE s = " " -> ""
             [] s = " A" -> "A"
             [] OTHER -> s

\* String.prototype.toLowerCase over the header names of the model.
ToLowerCase(s) == CASE s = "ID" -> "id"
                    [] s = "Id" -> "id"
                    [] s = "Start" -> "start"
                    [] s = "START" -> "start"
                    [] s = "End" -> "end"
                    [] s = "END" -> "end"
                    [] OTHER -> s

\* The text of day d: an ISO date of January 2024.
DateText(d) == <<"2024-01-01", "2024-01-02", "2024-01-03", "2024-01-04",
                 "2024-01-05", "2024-01-06", "2024-01-07", "2024-01-08",
                 "2024-01-09">>[d]

DateTexts == {DateText(d) : d \in 1..9}

\* !isNaN(new Date(s)): s parses to a valid date.
IsValidDate(s) == s \in DateTexts

\* new Date(s) for a valid s, as a day number.
DayOf(s) == CHOOSE d \in 1..9 : DateText(d) = s

Range(s) == {s[i] : i \in 1..Len(s)}

Min(S) == CHOOSE x \in S : \A y \in S : x <= y
Max(S) == CHOOSE x \in S : \A y \in S : x >= y

\* row[name]: Undefined when the row has no such property.
Field(row, name) == IF name \in DOMAIN row THEN row[name] ELSE Undefined

----------------------------------------------------------------------------
(* processDataAndDrawChart (src/script.js 193-338).                        *)

\* 3.1: rawData.map(...).filter(...): rows with a truthy id, valid dates and
\* end >= start, the dates as day numbers.  The properties read are the
\* lowercase d.id, d.start, d.end.
CleanData(rawData) ==
    LET mapped == [i \in 1..Len(rawData) |->
                     [id    |-> JsString(Field(rawData[i], "id")),
                      start |-> Field(rawData[i], "start"),
                      end   |-> Field(rawData[i], "end")]]
        Keep(d) == /\ d.id # ""
                   /\ IsValidDate(d.start)
                   /\ IsValidDate(d.end)
                   /\ DayOf(d.end) >= DayOf(d.start)
        kept == SelectSeq(mapped, Keep)
    IN  [i \in 1..Len(kept) |->
           [id |-> kept[i].id, start |-> DayOf(kept[i].start), end |-> DayOf(kept[i].end)]]

\* 3.2: Array.from(new Set(data.map(d => d.id))): distinct ids, first occurrence first.
KeysOf(data) ==
    LET K[i \in 0..Len(data)] ==
            IF i = 0 THEN <<>>
            ELSE LET seen == K[i - 1]
                 IN  IF data[i].id \in Range(seen) THEN seen ELSE Append(seen, data[i].id)
    IN  K[Len(data)]

\* 3.3: d3.min(data, d => d.start), d3.max(data, d => d.end)
MinTime(data) == Min({data[i].start : i \in 1..Len(data)})
MaxTime(data) == Max({data[i].end : i \in 1..Len(data)})

\* 3.4: d3.timeDay.range(start, stop): every day boundary from start
\* (inclusive) up to stop (exclusive).
TimeDayRange(start, stop) ==
    [i \in 1..(IF stop > start THEN stop - start ELSE 0) |-> start + i - 1]

\* 3.5: one timePoint object per day of timeIntervals: the property time, then
\* for each key a property that is 1 when some interval of that id has
\* t >= start and t <= end, else 0 (an assignment to a key replaces the
\* property of that name).
TimeseriesData(data, keys, timeIntervals) ==
    [j \in 1..Len(timeIntervals) |->
       [p \in {"time"} \cup Range(keys) |->
          IF p \in Range(keys)
          THEN IF \E i \in 1..Len(data) :
                    /\ data[i].id = p
                    /\ timeIntervals[j] >= data[i].start
                    /\ timeIntervals[j] <= data[i].end
               THEN 1 ELSE 0
          ELSE timeIntervals[j]]]

\* StackGenerator with the offset step left out: every series starts at 0.
StackGeneratorUnstacked(keys, timeseriesData) ==
    [i \in 1..Len(keys) |->
       [j \in 1..Len(timeseriesData) |-> <<0, timeseriesData[j][keys[i]]>>]]

\* 4.2: d3.stack().keys(keys).order(d3.stackOrderNone).offset(d3.stackOffsetNone):
\* series i holds, per time point, <<y0, y1>> with y0 the y1 of series i - 1
\* (0 for the first) and y1 = y0 + the value of key i.
StackGenerator(keys, timeseriesData) ==
    LET S[i \in 1..Len(keys)] ==
            [j \in 1..Len(timeseriesData) |->
               LET y0 == IF i = 1 THEN 0 ELSE S[i - 1][j][2]
               IN  <<y0, y0 + timeseriesData[j][keys[i]]>>]
    IN  [i \in 1..Len(keys) |-> S[i]]

\* 4.3: d3.max(series, d => d3.max(d, d => d[1])): <<>> stands for undefined,
\* the value d3.max gives when there is nothing to compare.
MaxHeight(series) ==
    LET tops == UNION {{series[i][j][2] : j \in 1..Len(series[i])} : i \in 1..Len(series)}
    IN  IF tops = {} THEN <<>> ELSE <<Max(tops)>>

NoChart == [keys |-> <<>>, minTime |-> 0, maxTime |-> 0, timeseriesData |-> <<>>,
            series |-> <<>>, maxHeight |-> <<>>]

\* The chart drawn from cleaned, non-empty data.
ChartOf(data) ==
    LET keys == KeysOf(data)
        tsd  == TimeseriesData(data, keys, TimeDayRange(MinTime(data), MaxTime(data)))
        series == StackGenerator(keys, tsd)
    IN  [keys |-> keys, minTime |-> MinTime(data), maxTime |-> MaxTime(data),
         timeseriesData |-> tsd, series |-> series, maxHeight |-> MaxHeight(series)]

\* processDataAndDrawChart(rawData) on page pg: no usable row alerts and
\* returns; otherwise the old svg is removed and the new chart drawn.
\* d3ok = FALSE is a page without the d3 global: line 221 throws, which the
\* caller catches.
ProcessDataAndDrawChart(rawData, pg, d3ok) ==
    LET data == CleanData(rawData)
        called == [pg EXCEPT !.drawCalls = @ + 1]
    IN  IF Len(data) = 0 THEN [called EXCEPT !.alerts = @ + 1]
        ELSE IF ~d3ok THEN [called EXCEPT !.threw = TRUE]
        ELSE [called EXCEPT !.chart = ChartOf(data)]

----------------------------------------------------------------------------
(* handleCsvText's complete callback (src/script.js 103-179).              *)

ShowErrors(pg, message) == [pg EXCEPT !.errors = message]
ClearErrors(pg) == [pg EXCEPT !.errors = <<>>]
ShowIndicator(pg) == [pg EXCEPT !.indicator = ""]
HideIndicator(pg) == [pg EXCEPT !.indicator = "none"]

Required == <<"id", "start", "end">>

\* One line of the error text.
Line(row, kind, raw) == [row |-> row, kind |-> kind, raw |-> raw]

\* fieldMap: lowercase field -> actual header name (a later header wins).
FieldMap(fields) ==
    [l \in {ToLowerCase(f) : f \in Range(fields)} |->
       fields[Max({i \in 1..Len(fields) : ToLowerCase(fields[i]) = l})]]

\* The value validated for a column: trimmed, '' when undefined.
Cell(row, fieldMap, col) ==
    IF Field(row, fieldMap[col]) # Undefined THEN Trim(Field(row, fieldMap[col])) ELSE ""

\* RowErrorsOf stopping at the first rule the row breaks.
RowErrorsOfFirstOnly(row, idx, fieldMap) ==
    LET rowNum == idx + 2
        idVal == Cell(row, fieldMap, "id")
        startRaw == Cell(row, fieldMap, "start")
        endRaw == Cell(row, fieldMap, "end")
    IN  IF idVal = "" THEN <<Line(rowNum, "missing or empty 'id'", <<>>)>>
        ELSE IF startRaw = "" THEN <<Line(rowNum, "missing 'start'", <<>>)>>
        ELSE IF ~IsValidDate(startRaw)
             THEN <<Line(rowNum, "invalid 'start' date", <<startRaw>>)>>
        ELSE IF endRaw = "" THEN <<Line(rowNum, "missing 'end'", <<>>)>>
        ELSE IF ~IsValidDate(endRaw)
             THEN <<Line(rowNum, "invalid 'end' date", <<endRaw>>)>>
        ELSE IF DayOf(endRaw) < DayOf(startRaw)
             THEN <<Line(rowNum, "'end' is before 'start'", <<endRaw, startRaw>>)>>
        ELSE <<>>

\* The errors pushed for the row at 0-based index idx.
RowErrorsOf(row, idx, fieldMap) ==
    LET rowNum == idx + 2
        idVal == Cell(row, fieldMap, "id")
        startRaw == Cell(row, fieldMap, "start")
        endRaw == Cell(row, fieldMap, "end")
    IN  (IF idVal = "" THEN <<Line(rowNum, "missing or empty 'id'", <<>>)>> ELSE <<>>)
        \o (IF startRaw = "" THEN <<Line(rowNum, "missing 'start'", <<>>)>>
            ELSE IF ~IsValidDate(startRaw)
                 THEN <<Line(rowNum, "invalid 'start' date", <<startRaw>>)>>
                 ELSE <<>>)
        \o (IF endRaw = "" THEN <<Line(rowNum, "missing 'end'", <<>>)>>
            ELSE IF ~IsValidDate(endRaw)
                 THEN <<Line(rowNum, "invalid 'end' date", <<endRaw>>)>>
                 ELSE <<>>)
        \o (IF /\ startRaw # "" /\ endRaw # ""
               /\ IsValidDate(startRaw) /\ IsValidDate(endRaw)
               /\ DayOf(endRaw) < DayOf(startRaw)
            THEN <<Line(rowNum, "'end' is before 'start'", <<endRaw, startRaw>>)>>
            ELSE <<>>)

\* results.data.forEach(...): the errors of all rows, in row order.
RowErrors(data, fieldMap) ==
    LET E[i \in 0..Len(data)] ==
            IF i = 0 THEN <<>>
            ELSE E[i - 1] \o RowErrorsOf(data[i], i - 1, fieldMap)
    IN  E[Len(data)]

\* Shown without the cap.
ShownAll(rowErrors) == rowErrors

\* rowErrors.slice(0, 200)
Shown(rowErrors) ==
    SubSeq(rowErrors, 1, IF Len(rowErrors) > ErrorCap THEN ErrorCap ELSE Len(rowErrors))

\* The complete callback on page pg.
Complete(res, pg, d3ok) ==
    IF Len(res.errors) > 0
    THEN HideIndicator(ShowErrors(pg, res.errors))
    ELSE
    LET fields == [i \in 1..Len(res.fields) |-> ToLowerCase(res.fields[i])]
        missing == SelectSeq(Required, LAMBDA r : r \notin Range(fields))
    IN  IF Len(missing) > 0
        THEN HideIndicator(ShowErrors(pg, <<Line(0, "Missing required column(s)", missing)>>))
        ELSE
        LET rowErrors == RowErrors(res.data, FieldMap(res.fields))
            validated == [pg EXCEPT !.rowErrors = rowErrors]
        IN  IF Len(rowErrors) > 0
            THEN HideIndicator(ShowErrors(validated, Shown(rowErrors)))
            ELSE
            LET drawn == ProcessDataAndDrawChart(res.data, validated, d3ok)
            IN  HideIndicator(
                  IF drawn.threw
                  THEN ShowErrors([drawn EXCEPT !.threw = FALSE],
                                  <<Line(0, "Error while drawing chart", <<>>)>>)
                  ELSE drawn)

----------------------------------------------------------------------------
(* Inputs: the results Papa.parse hands to the complete callback.          *)

SeqsUpTo(S, n) == UNION {[1..k -> S] : k \in 0..n}

\* A parsed row: the header names as properties, the cells as values.
MkRow(fields, cells) ==
    [f \in Range(fields) |-> cells[CHOOSE i \in 1..Len(fields) : fields[i] = f]]

Results(fields, cellRows, errors) ==
    [fields |-> fields,
     data   |-> [i \in 1..Len(cellRows) |-> MkRow(fields, cellRows[i])],
     errors |-> errors]

LowerHeader == <<"id", "start", "end">>
UpperHeader == <<"ID", "Start", "End">>

\* Rows that pass validation: ids A and B, start <= end within 1..MaxDay.
ValidCells ==
    {<<id, DateText(s), DateText(e)>> :
        <<id, s, e>> \in {x \in {"A", "B"} \X (1..MaxDay) \X (1..MaxDay) : x[2] <= x[3]}}

\* Rows that may break any rule: empty and blank ids, empty and unparsable dates,
\* end before start.
RawDates == {"", "x"} \cup {DateText(d) : d \in 1..MaxRawDay}
RawCells == {"", " ", "A"} \X RawDates \X RawDates

\* Valid inputs under the lowercase header.  Ids are opaque to the code, so the
\* first row's id is taken to be A.
ValidInputs ==
    {Results(LowerHeader, rows, <<>>) :
        rows \in {r \in SeqsUpTo(ValidCells, MaxIntervals) : r = <<>> \/ r[1][1] = "A"}}

\* Every sequence of up to MaxRows raw rows (ids '' and A) under the lowercase
\* header.
RawInputs ==
    {Results(LowerHeader, rows, <<>>) :
        rows \in SeqsUpTo({c \in RawCells : c[1] # " "}, MaxRows)}

\* Every raw row, and no row, under the header ID, Start, End.
UpperInputs ==
    {Results(UpperHeader, rows, <<>>) : rows \in SeqsUpTo(RawCells, 1)}

\* Up to MaxRepeat copies of one raw row: enough rows to pass the error cap.
RepeatedInputs ==
    {Results(LowerHeader, [i \in 1..n |-> r], <<>>) : n \in 1..MaxRepeat, r \in RawCells}

\* Headers that lack a required column.
HeaderInputs ==
    {Results(h, rows, <<>>) :
        h \in {<<"id", "start">>, <<"ID", "End">>, <<"start", "end">>},
        rows \in SeqsUpTo({<<DateText(1), DateText(2)>>}, 1)}

\* Results with a parser error (a row with too few fields).
ParseErrorInputs ==
    {Results(LowerHeader, rows, <<Line(1, "Too few fields", <<>>)>>) :
        rows \in SeqsUpTo({<<"A", DateText(1), DateText(2)>>}, 1)}

\* A valid text standing for DEFAULT_CSV_DATA, and its cleaned rows: the chart
\* the initial call leaves on the page.
DefaultText == Results(LowerHeader, <<<<"P", DateText(1), DateText(3)>>>>, <<>>)
PriorData == CleanData(DefaultText.data)

\* The page as handleCsvText leaves it before the deferred work runs:
\* errors cleared, indicator shown.
FreshPage(chart) ==
    [errors |-> <<>>, indicator |-> "", chart |-> chart, alerts |-> 0,
     drawCalls |-> 0, rowErrors |-> <<>>, threw |-> FALSE]

\* History: the calls of the debounced function (their number, and per burst
\* the time and argument of its last call), the invocations the debouncer made,
\* and per handleCsvText invocation the error text it showed once it completed.
NoHistory == [calls |-> 0, bursts |-> <<>>, invoked |-> <<>>, own |-> <<>>,
              overlap |-> FALSE]

----------------------------------------------------------------------------
(* Spec: the complete callback applied to every input.                     *)

Init ==
    /\ \/ results \in ValidInputs
       \/ results \in RawInputs
       \/ results \in UpperInputs
       \/ results \in RepeatedInputs
       \/ results \in HeaderInputs
       \/ results \in ParseErrorInputs
    /\ phase = "parsed"
    /\ page = FreshPage(ChartOf(PriorData))
    /\ d3 = TRUE
    /\ now = 0
    /\ timeout = <<>>
    /\ timers = <<>>
    /\ script = "none"
    /\ papa = TRUE
    /\ listeners = <<>>
    /\ hist = NoHistory

\* Papa.parse calls complete(results).
CompleteParse ==
    /\ phase = "parsed"
    /\ page' = Complete(results, page, d3)
    /\ phase' = "done"
    /\ UNCHANGED <<results, now, timeout, timers, script, papa, listeners, d3, hist>>

Next == CompleteParse

Spec == Init /\ [][Next]_vars

----------------------------------------------------------------------------
(* What the claims speak of, stated on the input itself.                   *)

Handled == phase = "done"

\* The header names the three required columns, in any casing.
HeaderNamesRequired ==
    \A r \in Range(Required) : \E f \in Range(results.fields) : ToLowerCase(f) = r

\* The cell of a row in the column named col in any casing.
CellOf(row, col) == row[CHOOSE f \in DOMAIN row : ToLowerCase(f) = col]

\* The validation rules, by the text of their error.
Rules == {"missing or empty 'id'", "missing 'start'", "invalid 'start' date",
          "missing 'end'", "invalid 'end' date", "'end' is before 'start'"}

Violates(row, rule) ==
    LET id == Trim(CellOf(row, "id"))
        start == Trim(CellOf(row, "start"))
        end == Trim(CellOf(row, "end"))
    IN  CASE rule = "missing or empty 'id'" -> id = ""
          [] rule = "missing 'start'" -> start = ""
          [] rule = "invalid 'start' date" -> start # "" /\ start \notin DateTexts
          [] rule = "missing 'end'" -> end = ""
          [] rule = "invalid 'end' date" -> end # "" /\ end \notin DateTexts
          [] rule = "'end' is before 'start'" ->
                /\ start \in DateTexts
                /\ end \in DateTexts
                /\ DayOf(end) < DayOf(start)

\* Validation ran: no parser error, no missing column.
Validated == Handled /\ results.errors = <<>> /\ HeaderNamesRequired

RowPasses(row) == \A rule \in Rules : ~Violates(row, rule)

\* A non-empty set of valid intervals under the lowercase header.
ValidIntervals ==
    /\ Validated
    /\ results.fields = LowerHeader
    /\ Len(results.data) > 0
    /\ \A i \in 1..Len(results.data) : RowPasses(results.data[i])

\* The intervals of the input, read from its cells.
Intervals ==
    [i \in 1..Len(results.data) |->
       [id |-> results.data[i]["id"],
        start |-> DayOf(results.data[i]["start"]),
        end |-> DayOf(results.data[i]["end"])]]

MinStart == Min({Intervals[i].start : i \in 1..Len(Intervals)})
MaxEnd == Max({Intervals[i].end : i \in 1..Len(Intervals)})

\* The ids with an interval covering day t.
ActiveIds(t) ==
    {Intervals[i].id : i \in {n \in 1..Len(Intervals) :
                                Intervals[n].start <= t /\ t <= Intervals[n].end}}

RECURSIVE SumOver(_, _)
\* The sum of f over the indices 1..n.
SumOver(f, n) == IF n = 0 THEN 0 ELSE SumOver(f, n - 1) + f[n]

----------------------------------------------------------------------------
(* Claims checked under Spec.                                              *)

\* C1: for every non-empty set of valid intervals, the chart holds exactly one
\* DayPoint for each calendar day from minStart to maxEnd inclusive, in
\* ascending order (maxEnd - minStart + 1 points).
C1_OneDayPointPerDay ==
    ValidIntervals =>
        LET tsd == page.chart.timeseriesData
        IN  /\ Len(tsd) = MaxEnd - MinStart + 1
            /\ \A j \in 1..Len(tsd) : tsd[j]["time"] = MinStart + j - 1

\* C2: for every non-empty set of valid intervals, maxStackHeight is >= 1 and
\* equals the maximum, over the days minStart..maxEnd, of the number of ids
\* active on the day.
C2_MaxStackHeightIsTrueMaximum ==
    ValidIntervals =>
        /\ page.chart.maxHeight =
              <<Max({Cardinality(ActiveIds(t)) : t \in MinStart..MaxEnd})>>
        /\ \A i \in 1..Len(page.chart.maxHeight) : page.chart.maxHeight[i] >= 1

\* The key set: the distinct ids in first-occurrence order.
IsKeySet(keys) ==
    /\ Range(keys) = {Intervals[i].id : i \in 1..Len(Intervals)}
    /\ \A a, b \in 1..Len(keys) : a # b => keys[a] # keys[b]
    /\ \A a, b \in 1..Len(keys) :
          a < b => Min({i \in 1..Len(Intervals) : Intervals[i].id = keys[a]})
                     < Min({i \in 1..Len(Intervals) : Intervals[i].id = keys[b]})

\* C3: in the stacked series, for every DayPoint and every key k of the key set
\* (first-occurrence order), baseline(k) is the sum of the occupancies of the
\* keys before k on that day, top(k) - baseline(k) is k's occupancy and is 0 or
\* 1, and the top of the last key is the number of distinct ids active that day.
C3_StackedSeries ==
    ValidIntervals =>
        LET c == page.chart
            occ(j) == [i \in 1..Len(c.keys) |-> c.timeseriesData[j][c.keys[i]]]
        IN  /\ IsKeySet(c.keys)
            /\ Len(c.series) = Len(c.keys)
            /\ \A i \in 1..Len(c.keys) : Len(c.series[i]) = Len(c.timeseriesData)
            /\ \A j \in 1..Len(c.timeseriesData) :
                 /\ \A i \in 1..Len(c.keys) :
                      /\ c.series[i][j][1] = SumOver(occ(j), i - 1)
                      /\ c.series[i][j][2] - c.series[i][j][1] = occ(j)[i]
                      /\ c.series[i][j][2] - c.series[i][j][1] \in {0, 1}
                 /\ c.series[Len(c.keys)][j][2]
                      = Cardinality(ActiveIds(c.timeseriesData[j]["time"]))

\* C3 witness: a chart of two keys both active on one of its days.
C3_Witness ==
    /\ ValidIntervals
    /\ Len(page.chart.keys) = 2
    /\ \E j \in 1..Len(page.chart.timeseriesData) : page.chart.series[2][j] = <<1, 2>>
    /\ \E j \in 1..Len(page.chart.timeseriesData) : page.chart.series[2][j] = <<0, 1>>

\* C4: for each day t of the span and each id k of the key set there is a
\* DayPoint on which the occupancy of k is 1 if and only if some interval of
\* id k has start <= t <= end, else 0 (so A:[1,2] and A:[2,3] give A the
\* occupancy 1 on every day of [1,3]).
C4_OccupancyOnEveryDay ==
    ValidIntervals =>
        \A t \in MinStart..MaxEnd : \A k \in Range(page.chart.keys) :
            \E j \in 1..Len(page.chart.timeseriesData) :
                /\ page.chart.timeseriesData[j]["time"] = t
                /\ page.chart.timeseriesData[j][k] = (IF k \in ActiveIds(t) THEN 1 ELSE 0)

\* The part of C4 that speaks of the generated days only: on every DayPoint the
\* occupancy of each key is 1 if and only if the id is active on that day.
OccupancyOnGeneratedDays ==
    ValidIntervals =>
        \A j \in 1..Len(page.chart.timeseriesData) : \A k \in Range(page.chart.keys) :
            page.chart.timeseriesData[j][k]
              = (IF k \in ActiveIds(page.chart.timeseriesData[j]["time"]) THEN 1 ELSE 0)

\* The same rows under the lowercase header names.
Lowercased(res) ==
    [res EXCEPT !.fields = [i \in 1..Len(res.fields) |-> ToLowerCase(res.fields[i])],
                !.data = [i \in 1..Len(res.data) |->
                            [l \in {ToLowerCase(f) : f \in DOMAIN res.data[i]} |->
                               CellOf(res.data[i], l)]]]

\* C5: when the header names the three required columns in any casing and
\* every row passes validation, the chart (key set and stacked series) is the
\* one obtained from the same rows under the headers id, start, end.
C5_HeaderCaseInsensitive ==
    (/\ Validated
     /\ \A i \in 1..Len(results.data) : RowPasses(results.data[i]))
    => LET lower == Complete(Lowercased(results), FreshPage(ChartOf(PriorData)), TRUE)
       IN  /\ page.chart.keys = lower.chart.keys
           /\ page.chart.series = lower.chart.series

\* C6: row validation never stops at the first error: every rule a row at
\* 0-based index i violates has an entry labelled i + 2 in the collected
\* errors, the entries are in row order, and no entry is for a rule the row
\* keeps (a row with end = start has none).
C6_AllRowErrorsCollected ==
    Validated =>
        LET E == page.rowErrors
            data == results.data
        IN  /\ \A i \in 1..Len(data) : \A rule \in Rules :
                  Violates(data[i], rule) =>
                      \E n \in 1..Len(E) : E[n].row = (i - 1) + 2 /\ E[n].kind = rule
            /\ \A m, n \in 1..Len(E) : m < n => E[m].row <= E[n].row
            /\ \A n \in 1..Len(E) :
                  \E i \in 1..Len(data) :
                      E[n].row = (i - 1) + 2 /\ Violates(data[i], E[n].kind)
            /\ \A m, n \in 1..Len(E) : m # n => E[m] # E[n]

\* C6 witness: two rows, each breaking more than one rule, the second row's
\* errors collected after the first's.
C6_Witness ==
    /\ Validated
    /\ Len(results.data) = 2
    /\ Cardinality({n \in 1..Len(page.rowErrors) : page.rowErrors[n].row = 2}) >= 2
    /\ Cardinality({n \in 1..Len(page.rowErrors) : page.rowErrors[n].row = 3}) >= 2

\* C7: when validation finds an error in at least one row, the input is
\* rejected: processDataAndDrawChart is not invoked, the chart on the page is
\* the earlier one, and the collected errors, cut to the first 200, are shown.
C7_RejectedOnAnyRowError ==
    (/\ Validated
     /\ \E i \in 1..Len(results.data) : ~RowPasses(results.data[i]))
    => /\ page.drawCalls = 0
       /\ page.alerts = 0
       /\ page.chart = ChartOf(PriorData)
       /\ Len(page.errors) = (IF Len(page.rowErrors) > 200 THEN 200 ELSE Len(page.rowErrors))
       /\ \A n \in 1..Len(page.errors) : page.errors[n] = page.rowErrors[n]
       /\ Len(page.errors) > 0
       /\ page.indicator = "none"

\* C7 witness: more than 200 errors were collected and 200 are shown.
C7_Witness ==
    /\ Validated
    /\ Len(page.rowErrors) > 200
    /\ Len(page.errors) = 200
    /\ page.drawCalls = 0

----------------------------------------------------------------------------
(* AppSpec: initApp, debounce, handleCsvText and ensurePapaLoaded on the   *)
(* event loop.  A text is identified with the results Papa.parse gives.    *)

Texts ==
    {Results(LowerHeader, <<<<"A", DateText(1), DateText(2)>>>>, <<>>),
     Results(LowerHeader, <<<<"", DateText(2), DateText(1)>>>>, <<>>),
     Results(<<"id", "start">>, <<<<"A", DateText(1)>>>>, <<>>),
     Results(LowerHeader, <<<<"A", DateText(1), DateText(2)>>>>,
             <<Line(1, "Too few fields", <<>>)>>)}

LoadFailure == <<Line(0, "Failed to load PapaParse", <<>>)>>

\* debounce keeping a timer that is already pending.
DebouncedKeepFirst(pending, t, args) ==
    IF pending # <<>> THEN pending ELSE <<[due |-> t + DebounceDelay, args |-> args]>>

\* The function debounce returns, called at time t with args while the timer
\* variable holds pending: clearTimeout(timeout), then
\* timeout = setTimeout(() => func.apply(this, args), delay).
Debounced(pending, t, args) == <<[due |-> t + DebounceDelay, args |-> args]>>

\* A timer that is due runs before time passes or further input is handled.
TimerDue == timers # <<>> \/ (timeout # <<>> /\ timeout[1].due <= now)

\* The invocations of handleCsvText that have not completed.
Pending == {i \in 1..Len(hist.own) : hist.own[i] = <<>>}

\* handleCsvText(csvText), the synchronous part: clearErrors, showIndicator,
\* setTimeout(..., 0).
HandleCsvText(csvText) ==
    /\ page' = ShowIndicator(ClearErrors(page))
    /\ timers' = Append(timers, [id |-> Len(hist.own) + 1, text |-> csvText])

\* The "input" listener of initApp: debouncedHandleCsvText(event.target.value).
Input(text) ==
    /\ phase = "app"
    /\ hist.calls < MaxCalls
    /\ ~TimerDue
    /\ timeout' = Debounced(timeout, now, text)
    /\ hist' = [hist EXCEPT
          !.calls = @ + 1,
          !.bursts = IF @ # <<>> /\ now - @[Len(@)].at < DebounceDelay
                     THEN [@ EXCEPT ![Len(@)] = [at |-> now, args |-> text]]
                     ELSE Append(@, [at |-> now, args |-> text])]
    /\ UNCHANGED <<results, phase, page, now, timers, script, papa, listeners, d3>>

\* Time passes, up to the next deadline.
Tick ==
    /\ phase = "app"
    /\ now < MaxClock
    /\ ~TimerDue
    /\ now' = IF timeout # <<>> /\ timeout[1].due < now + TickMs
              THEN timeout[1].due ELSE now + TickMs
    /\ UNCHANGED <<results, phase, page, timeout, timers, script, papa, listeners, d3, hist>>

\* debounce's timer fires: func.apply(this, args), that is handleCsvText(args).
DebounceFire ==
    /\ phase = "app"
    /\ timeout # <<>>
    /\ timeout[1].due <= now
    /\ HandleCsvText(timeout[1].args)
    /\ timeout' = <<>>
    /\ hist' = [hist EXCEPT
          !.invoked = Append(@, [at |-> now, args |-> timeout[1].args]),
          !.own = Append(@, <<>>),
          !.overlap = @ \/ Pending # {}]
    /\ UNCHANGED <<results, phase, now, script, papa, listeners, d3>>

\* The promise of ensurePapaLoaded settles for invocation inv on page pg:
\* resolved, Papa.parse runs and calls complete; rejected, the catch handler
\* shows the load failure and hides the indicator.
Settle(inv, pg, resolved) ==
    IF resolved THEN Complete(inv.text, pg, d3)
    ELSE HideIndicator(ShowErrors(pg, LoadFailure))

RECURSIVE SettleAll(_, _, _)
\* The listeners of the script's event run in the order they were added.
SettleAll(invs, pg, resolved) ==
    IF invs = <<>> THEN pg
    ELSE SettleAll(Tail(invs), Settle(Head(invs), pg, resolved), resolved)

\* The error text invocation inv shows when it completes ('' when none).
OwnErrors(inv, resolved) == Settle(inv, FreshPage(NoChart), resolved).errors

Completed(own, invs, resolved) ==
    [i \in 1..Len(own) |->
       IF \E n \in 1..Len(invs) : invs[n].id = i
       THEN <<OwnErrors(CHOOSE inv \in Range(invs) : inv.id = i, resolved)>>
       ELSE own[i]]

\* handleCsvText's setTimeout(0) callback: ensurePapaLoaded().then(...).catch(...).
\* With window.Papa the promise resolves at once; with a script[data-papa-dynamic]
\* in the document, listeners are added to it; otherwise the script is injected.
TimerFire ==
    /\ phase = "app"
    /\ timers # <<>>
    /\ timers' = Tail(timers)
    /\ LET inv == Head(timers)
       IN  IF papa
           THEN /\ page' = Settle(inv, page, TRUE)
                /\ hist' = [hist EXCEPT !.own = Completed(@, <<inv>>, TRUE)]
                /\ UNCHANGED <<script, listeners>>
           ELSE /\ listeners' = Append(listeners, inv)
                /\ script' = IF script = "none" THEN "loading" ELSE script
                /\ UNCHANGED <<page, hist>>
    /\ UNCHANGED <<results, phase, now, timeout, papa, d3>>

\* The injected script's load event; defines tells whether the file it loaded
\* defined window.Papa.
ScriptLoad(defines) ==
    /\ phase = "app"
    /\ script = "loading"
    /\ script' = "loaded"
    /\ papa' = defines
    /\ page' = SettleAll(listeners, page, defines)
    /\ hist' = [hist EXCEPT !.own = Completed(@, listeners, defines)]
    /\ listeners' = <<>>
    /\ UNCHANGED <<results, phase, now, timeout, timers, d3>>

\* The injected script's error event.
ScriptError ==
    /\ phase = "app"
    /\ script = "loading"
    /\ script' = "failed"
    /\ page' = SettleAll(listeners, page, FALSE)
    /\ hist' = [hist EXCEPT !.own = Completed(@, listeners, FALSE)]
    /\ listeners' = <<>>
    /\ UNCHANGED <<results, phase, now, timeout, timers, papa, d3>>

\* The page after initApp: the textarea prefilled, handleCsvText(DEFAULT_CSV_DATA)
\* called, the input listener wired.
AppInit ==
    /\ results = DefaultText
    /\ phase = "app"
    /\ page = FreshPage(NoChart)
    /\ d3 \in BOOLEAN
    /\ papa \in BOOLEAN
    /\ now = 0
    /\ timeout = <<>>
    /\ timers = <<[id |-> 1, text |-> DefaultText]>>
    /\ script = "none"
    /\ listeners = <<>>
    /\ hist = [NoHistory EXCEPT !.own = <<<<>>>>]

AppNext ==
    \/ \E text \in Texts : Input(text)
    \/ Tick
    \/ DebounceFire
    \/ TimerFire
    \/ \E defines \in BOOLEAN : ScriptLoad(defines)
    \/ ScriptError

AppSpec == AppInit /\ [][AppNext]_vars

----------------------------------------------------------------------------
(* Claims checked under AppSpec.                                           *)

\* Nothing is left to run: no timer is pending and the injected script is not
\* loading any more.
Idle == phase = "app" /\ timers = <<>> /\ timeout = <<>> /\ script # "loading"

\* C8: every invocation of handleCsvText is eventually followed by
\* hideIndicator on every outcome, so once nothing is left to run the
\* rendering indicator is hidden.
C8_IndicatorHiddenWhenIdle == Idle => page.indicator = "none"

\* The invocations that completed did hide the indicator: what keeps it
\* visible is an invocation that never completes.
IndicatorHiddenWhenAllCompleted == (Idle /\ Pending = {}) => page.indicator = "none"

\* C9: when several invocations of handleCsvText were pending at once, then
\* after all of them completed the error display is the one of the most recent
\* invocation (empty when its input was valid and its chart drawn).
C9_ErrorsOfLatestInvocation ==
    (phase = "app" /\ hist.overlap /\ Pending = {})
    => page.errors = hist.own[Len(hist.own)][1]

\* Without invocations pending at once the display is the latest invocation's.
ErrorsOfLatestWithoutOverlap ==
    (phase = "app" /\ ~hist.overlap /\ Pending = {})
    => page.errors = hist.own[Len(hist.own)][1]

\* C10: the debounced handler runs the wrapped function once per burst of
\* calls (each less than the delay after the previous one), when the delay has
\* elapsed since the last call of the burst and with that call's arguments; a
\* burst not yet served is the last one, still within its delay.
C10_DebounceOncePerBurst ==
    phase = "app" =>
        /\ Len(hist.invoked) <= Len(hist.bursts)
        /\ \A n \in 1..Len(hist.bursts) :
              IF n <= Len(hist.invoked)
              THEN hist.invoked[n] = [at |-> hist.bursts[n].at + DebounceDelay,
                                      args |-> hist.bursts[n].args]
              ELSE /\ n = Len(hist.bursts)
                   /\ now <= hist.bursts[n].at + DebounceDelay

\* C10 witness: one burst of several calls, the last of them after time 0,
\* served by a single invocation.
C10_Witness ==
    /\ phase = "app"
    /\ hist.calls >= 2
    /\ Len(hist.bursts) = 1
    /\ Len(hist.invoked) = 1
    /\ hist.invoked[1].at > DebounceDelay

====
